---- MODULE Spec2Model ----
(***************************************************************************)
(* Model of src/app.py: the dimension classifier parse_dimension, the      *)
(* line extractor extract_dimensions_from_pdf and the request handler      *)
(* that turns the extracted rows into a table.                             *)
(*                                                                         *)
(* A text is a sequence of characters; a character is a one-character      *)
(* string, except the non-ASCII characters of the source, which are named  *)
(* (PlusMinus, Oslash, Degree, Target, Arrow).                             *)
(***************************************************************************)
EXTENDS Integers, Sequences, FiniteSets, TLC

VARIABLES pc, inp, out, default_tolerance, include_page_ref,
          num_pages, page_num, method, nread, line, data, origin, columns

vars == <<pc, inp, out, default_tolerance, include_page_ref,
          num_pages, page_num, method, nread, line, data, origin, columns>>

(***************************************************************************)
(* Bounds of the model.                                                    *)
(***************************************************************************)
MaxPages == 2
MaxLines == 2
MaxFrags == 3
MaxLineLen == 4

(***************************************************************************)
(* Characters.                                                             *)
(***************************************************************************)
PlusMinus == "+-"
Oslash == "O/"
Degree == "deg"
Target == "target"
Arrow == "arrow"

Digits == {"0", "1", "2", "3", "4", "5", "6", "7", "8", "9"}
Whitespace == {" ", "\t", "\n"}
LowerLetters == <<"a", "b", "c", "d", "e", "f", "g", "h", "i", "j", "k", "l", "m",
                  "n", "o", "p", "q", "r", "s", "t", "u", "v", "w", "x", "y", "z">>
UpperLetters == <<"A", "B", "C", "D", "E", "F", "G", "H", "I", "J", "K", "L", "M",
                  "N", "O", "P", "Q", "R", "S", "T", "U", "V", "W", "X", "Y", "Z">>
Letters == {LowerLetters[i] : i \in 1..26} \cup {UpperLetters[i] : i \in 1..26} \cup {Oslash}
\* \w of the re module: letters, digits and the underscore
WordChars == Letters \cup Digits \cup {"_"}
\* the characters '.' of the re module does not match
LineBreaks == {"\n"}

MinOf(S) == CHOOSE x \in S : \A y \in S : x <= y

\* str.upper, character by character
UpperOf == [c \in {LowerLetters[i] : i \in 1..26} |->
               UpperLetters[CHOOSE i \in 1..26 : LowerLetters[i] = c]]

upper_char(c) == IF c \in DOMAIN UpperOf THEN UpperOf[c] ELSE c

upper(s) == [i \in 1..Len(s) |-> upper_char(s[i])]

\* the operator `in` on strings
Contains(s, p) == \E i \in 1..(Len(s) - Len(p) + 1) : \A k \in 1..Len(p) : s[i + k - 1] = p[k]

\* str.startswith
startswith(s, p) == Len(s) >= Len(p) /\ SubSeq(s, 1, Len(p)) = p

\* str.strip
strip(s) ==
    LET keep == {i \in 1..Len(s) : s[i] \notin Whitespace}
    IN  IF keep = {} THEN <<>>
        ELSE SubSeq(s, MinOf(keep), CHOOSE i \in keep : \A j \in keep : j <= i)

\* str.replace(' ', '')
RECURSIVE replace_space(_)
replace_space(s) ==
    IF s = <<>> THEN <<>>
    ELSE IF Head(s) = " " THEN replace_space(Tail(s))
    ELSE <<Head(s)>> \o replace_space(Tail(s))

\* the position after the longest run of characters of class C that starts
\* at position i of s (i itself when s[i] is not in C): a greedy C*
RECURSIVE RunEnd(_, _, _)
RunEnd(s, i, C) == IF i > Len(s) \/ s[i] \notin C THEN i ELSE RunEnd(s, i + 1, C)

At(s, i, c) == i >= 1 /\ i <= Len(s) /\ s[i] = c
AtClass(s, i, C) == i >= 1 /\ i <= Len(s) /\ s[i] \in C

(***************************************************************************)
(* re.search: the leftmost position where the pattern matches.  A pattern  *)
(* is an operator E(s, i) giving the position after its match at i, or 0;  *)
(* ends[i] is that position for every i of the text.                       *)
(***************************************************************************)
NoMatch == [found |-> FALSE, lo |-> 0, hi |-> 0]

leftmost(ends) ==
    LET hits == {i \in 1..Len(ends) : ends[i] > 0}
    IN  IF hits = {} THEN NoMatch
        ELSE CHOOSE m \in {[found |-> TRUE, lo |-> lo, hi |-> ends[lo]] : lo \in {MinOf(hits)}} : TRUE

search(ends) == CHOOSE m \in {leftmost(e) : e \in {ends}} : TRUE

group1(s, m) == SubSeq(s, m.lo, m.hi - 1)

\* \d+ at i: the position after it, or 0
DigitsEnd(s, i) == LET j == RunEnd(s, i, Digits) IN IF j > i THEN j ELSE 0

\* \d+\.\d+ at i
DecimalEnd(s, i) ==
    LET j == DigitsEnd(s, i)
    IN  IF j > 0 /\ At(s, j, ".") THEN DigitsEnd(s, j + 1) ELSE 0

\* \d+/\d+ at i
FractionEnd(s, i) ==
    LET j == DigitsEnd(s, i)
    IN  IF j > 0 /\ At(s, j, "/") THEN DigitsEnd(s, j + 1) ELSE 0

\* \d+\s\d+/\d+ at i
MixedEnd(s, i) ==
    LET j == DigitsEnd(s, i)
    IN  IF j > 0 /\ AtClass(s, j, Whitespace) THEN FractionEnd(s, j + 1) ELSE 0

(***************************************************************************)
(* Numbers.  A float is modelled by the reduced fraction <<n, d>> of its   *)
(* value; None is the empty tuple.                                         *)
(***************************************************************************)
None == <<>>

DigitVal(c) == CHOOSE n \in 0..9 : <<"0", "1", "2", "3", "4", "5", "6", "7", "8", "9">>[n + 1] = c

RECURSIVE IntOf(_)
IntOf(ds) ==
    IF ds = <<>> THEN 0
    ELSE 10 * IntOf(SubSeq(ds, 1, Len(ds) - 1)) + DigitVal(ds[Len(ds)])

RECURSIVE Pow10(_)
Pow10(n) == IF n = 0 THEN 1 ELSE 10 * Pow10(n - 1)

RECURSIVE GCD(_, _)
GCD(a, b) == IF b = 0 THEN a ELSE GCD(b, a % b)

Ratio(n, d) == IF n = 0 THEN <<0, 1>> ELSE <<n \div GCD(n, d), d \div GCD(n, d)>>

AllDigits(s) == s /= <<>> /\ \A i \in 1..Len(s) : s[i] \in Digits

\* float(x) of a text of digits with at most one '.', None being "raises ValueError"
float_of(x) ==
    LET t == strip(x)
        dots == {i \in 1..Len(t) : t[i] = "."}
    IN  IF AllDigits(t) THEN Ratio(IntOf(t), 1)
        ELSE IF Cardinality(dots) = 1
                /\ LET p == MinOf(dots)
                   IN  AllDigits(SubSeq(t, 1, p - 1)) /\ AllDigits(SubSeq(t, p + 1, Len(t)))
        THEN LET p == MinOf(dots)
                 fr == SubSeq(t, p + 1, Len(t))
             IN  Ratio(IntOf(SubSeq(t, 1, p - 1)) * Pow10(Len(fr)) + IntOf(fr), Pow10(Len(fr)))
        ELSE None

AddRatio(a, b) == Ratio(a[1] * b[2] + b[1] * a[2], a[2] * b[2])

\* a / b on floats, None being "raises" (ValueError of an operand, ZeroDivisionError)
DivRatio(a, b) ==
    IF a = None \/ b = None THEN None
    ELSE IF b[1] = 0 THEN None
    ELSE Ratio(a[1] * b[2], a[2] * b[1])

\* str.split(sep, 1): the parts before and after the first sep
SplitFirst(s, sep) ==
    LET p == MinOf({i \in 1..Len(s) : s[i] = sep})
    IN  <<SubSeq(s, 1, p - 1), SubSeq(s, p + 1, Len(s))>>

\* the body of the try block of the nominal loop: the value of val_str, None
\* when the conversion raises ValueError or ZeroDivisionError
nominal_value(val_str) ==
    IF Contains(val_str, <<"/">>)
    THEN IF Contains(val_str, <<" ">>)
         THEN LET wf == SplitFirst(val_str, " ")
                  nd == SplitFirst(wf[2], "/")
                  q == DivRatio(float_of(nd[1]), float_of(nd[2]))
              IN  IF float_of(wf[1]) = None \/ q = None THEN None
                  ELSE AddRatio(float_of(wf[1]), q)
         ELSE LET nd == SplitFirst(val_str, "/")
              IN  DivRatio(float_of(nd[1]), float_of(nd[2]))
    ELSE float_of(val_str)

\* one turn of `for pattern in nominal_patterns`: the value when the pattern
\* matches and converts (break), else the rest of the loop (continue)
TryNominal(m, s, rest) ==
    IF m.found
    THEN CHOOSE r \in {IF v /= None THEN v ELSE rest :
                        v \in {nominal_value(val_str) : val_str \in {group1(s, m)}}} : TRUE
    ELSE rest

nominal_of(s) ==
    TryNominal(search([i \in 1..Len(s) |-> DecimalEnd(s, i)]), s,
      TryNominal(search([i \in 1..Len(s) |-> DigitsEnd(s, i)]), s,
        TryNominal(search([i \in 1..Len(s) |-> FractionEnd(s, i)]), s,
          TryNominal(search([i \in 1..Len(s) |-> MixedEnd(s, i)]), s, None))))

(***************************************************************************)
(* Tolerance.                                                              *)
(***************************************************************************)
DefaultTol == <<PlusMinus, "0", ".", "1", "0">>

\* ±\s*\d+\.\d+ at i
PmDecimalEnd(s, i) ==
    IF At(s, i, PlusMinus) THEN DecimalEnd(s, RunEnd(s, i + 1, Whitespace)) ELSE 0

\* ±\s*\d+ at i
PmWholeEnd(s, i) ==
    IF At(s, i, PlusMinus) THEN DigitsEnd(s, RunEnd(s, i + 1, Whitespace)) ELSE 0

\* [+]\d+\.\d+/-\d+\.\d+ at i
AsymDecimalEnd(s, i) ==
    LET j == IF At(s, i, "+") THEN DecimalEnd(s, i + 1) ELSE 0
    IN  IF j > 0 /\ At(s, j, "/") /\ At(s, j + 1, "-") THEN DecimalEnd(s, j + 2) ELSE 0

\* [+]\d+/-\d+ at i
AsymWholeEnd(s, i) ==
    LET j == IF At(s, i, "+") THEN DigitsEnd(s, i + 1) ELSE 0
    IN  IF j > 0 /\ At(s, j, "/") /\ At(s, j + 1, "-") THEN DigitsEnd(s, j + 2) ELSE 0

\* [+\-]\d+\.\d+ at i
SignedDecimalEnd(s, i) == IF AtClass(s, i, {"+", "-"}) THEN DecimalEnd(s, i + 1) ELSE 0

\* [+\-]\d+ at i
SignedWholeEnd(s, i) == IF AtClass(s, i, {"+", "-"}) THEN DigitsEnd(s, i + 1) ELSE 0

\* one turn of `for pattern in tol_patterns`
TryTol(m, s, rest) == IF m.found THEN replace_space(group1(s, m)) ELSE rest

\* tol_of with the whole-number pattern tried before the decimal one
tol_of_WholeFirst(s) ==
    TryTol(search([i \in 1..Len(s) |-> PmWholeEnd(s, i)]), s,
      TryTol(search([i \in 1..Len(s) |-> PmDecimalEnd(s, i)]), s,
        TryTol(search([i \in 1..Len(s) |-> AsymDecimalEnd(s, i)]), s,
          TryTol(search([i \in 1..Len(s) |-> AsymWholeEnd(s, i)]), s,
            TryTol(search([i \in 1..Len(s) |-> SignedDecimalEnd(s, i)]), s,
              TryTol(search([i \in 1..Len(s) |-> SignedWholeEnd(s, i)]), s, DefaultTol))))))

tol_of(s) ==
    TryTol(search([i \in 1..Len(s) |-> PmDecimalEnd(s, i)]), s,
      TryTol(search([i \in 1..Len(s) |-> PmWholeEnd(s, i)]), s,
        TryTol(search([i \in 1..Len(s) |-> AsymDecimalEnd(s, i)]), s,
          TryTol(search([i \in 1..Len(s) |-> AsymWholeEnd(s, i)]), s,
            TryTol(search([i \in 1..Len(s) |-> SignedDecimalEnd(s, i)]), s,
              TryTol(search([i \in 1..Len(s) |-> SignedWholeEnd(s, i)]), s, DefaultTol))))))

(***************************************************************************)
(* Parameter type and instrument.                                          *)
(***************************************************************************)
\* M\d+ at i
ThreadSizeEnd(s, i) == IF At(s, i, "M") THEN DigitsEnd(s, i + 1) ELSE 0

\* \d+\s*[Xx]\s*\d+° at i
ChamferEnd(s, i) ==
    LET j == DigitsEnd(s, i)
        k == IF j > 0 THEN RunEnd(s, j, Whitespace) ELSE 0
        m == IF k > 0 /\ AtClass(s, k, {"X", "x"})
             THEN DigitsEnd(s, RunEnd(s, k + 1, Whitespace)) ELSE 0
    IN  IF m > 0 /\ At(s, m, Degree) THEN m + 1 ELSE 0

\* the tests of the if/elif chain, on line (s) and line_upper (u)
IsDiameter(s, u) ==
    \/ Contains(s, <<Oslash>>)
    \/ Contains(s, <<"D", "I", "A">>)
    \/ Contains(s, <<"D", "I", "A", "M">>)
    \/ Contains(u, <<"D", "I", "A", "M", "E", "T", "E", "R">>)

IsRadius(s, u) ==
    \/ startswith(s, <<"R">>)
    \/ Contains(u, <<"R", "A", "D", "I", "U", "S">>)
    \/ Contains(s, <<" ", "R", " ">>)

IsThread(s, u) ==
    \/ search([i \in 1..Len(s) |-> ThreadSizeEnd(s, i)]).found
    \/ Contains(u, <<"T", "H", "R", "E", "A", "D">>)

IsChamfer(s, u) ==
    \/ /\ Contains(s, <<Degree>>)
       /\ \/ Contains(u, <<"X">>)
          \/ Contains(u, <<"C", "H", "A", "M">>)
          \/ Contains(u, <<"C", "H", "A", "M", "F", "E", "R">>)
    \/ search([i \in 1..Len(s) |-> ChamferEnd(s, i)]).found

IsAngle(s, u) ==
    \/ Contains(s, <<Degree>>)
    \/ Contains(u, <<"A", "N", "G", "L", "E">>)
    \/ Contains(u, <<"D", "E", "G">>)

IsSurface(s, u) ==
    \/ Contains(s, <<"R", "a">>)
    \/ Contains(s, <<"R", "z">>)
    \/ Contains(s, <<"R", "t">>)
    \/ Contains(u, <<"S", "U", "R", "F", "A", "C", "E">>)

IsConcentricity(s, u) ==
    \/ Contains(s, <<Target>>)
    \/ Contains(s, <<Arrow>>)
    \/ Contains(u, <<"C", "O", "N", "C">>)
    \/ Contains(u, <<"R", "U", "N", "O", "U", "T">>)

\* classify with the Angle branch placed before the Chamfer branch
classify_AngleFirst(s, u) ==
    IF IsDiameter(s, u) THEN <<"Diameter", "DVC">>
    ELSE IF IsRadius(s, u) THEN <<"Radius", "VMS/IMM">>
    ELSE IF IsThread(s, u) THEN <<"Thread", "Thread Gauge">>
    ELSE IF IsAngle(s, u) THEN <<"Angle", "VMS/IMM">>
    ELSE IF IsChamfer(s, u) THEN <<"Chamfer", "VMS/IMM">>
    ELSE IF IsSurface(s, u) THEN <<"Surface Roughness", "Surface Tester">>
    ELSE IF IsConcentricity(s, u) THEN <<"Concentricity/Runout", "CMM">>
    ELSE <<"Length", "DVC">>

\* the if/elif chain on line (s) and line_upper (u): <<desc, inst>>
classify(s, u) ==
    IF IsDiameter(s, u) THEN <<"Diameter", "DVC">>
    ELSE IF IsRadius(s, u) THEN <<"Radius", "VMS/IMM">>
    ELSE IF IsThread(s, u) THEN <<"Thread", "Thread Gauge">>
    ELSE IF IsChamfer(s, u) THEN <<"Chamfer", "VMS/IMM">>
    ELSE IF IsAngle(s, u) THEN <<"Angle", "VMS/IMM">>
    ELSE IF IsSurface(s, u) THEN <<"Surface Roughness", "Surface Tester">>
    ELSE IF IsConcentricity(s, u) THEN <<"Concentricity/Runout", "CMM">>
    ELSE <<"Length", "DVC">>

(***************************************************************************)
(* Inspection type.                                                        *)
(***************************************************************************)
\* \b at position p: exactly one of s[p-1], s[p] is a word character
word_boundary(s, p) == AtClass(s, p - 1, WordChars) /= AtClass(s, p, WordChars)

\* search_token without the two \b: the letter anywhere
search_token_Anywhere(s, c) == \E i \in 1..Len(s) : s[i] = c

\* re.search(r"\bc\b", s) for a letter c
search_token(s, c) ==
    \E i \in 1..Len(s) : word_boundary(s, i) /\ s[i] = c /\ word_boundary(s, i + 1)

\* on line_upper (u)
inspection_type(u) ==
    IF search_token(u, "C") \/ Contains(u, <<"C", "R", "I", "T", "I", "C", "A", "L">>)
    THEN "C"
    ELSE IF search_token(u, "S") \/ Contains(u, <<"S", "P", "E", "C">>)
    THEN "S"
    ELSE IF Contains(u, <<"K", "E", "Y">>) \/ Contains(u, <<"M", "A", "J", "O", "R">>)
    THEN "K"
    ELSE ""

\* the value returned for the stripped line s and its upper case u
parse_fields(s, u) ==
    LET c == classify(s, u)
    IN  [desc |-> c[1], nominal |-> nominal_of(s), tol |-> tol_of(s),
         typ |-> inspection_type(u), inst |-> c[2]]

\* the local variables line = line.strip() and line_upper = line.upper()
\* are bound once each, as the elements of one-element sets
parse_stripped(s) == CHOOSE r \in {parse_fields(s, u) : u \in {upper(s)}} : TRUE

parse_dimension(text) == CHOOSE r \in {parse_stripped(s) : s \in {strip(text)}} : TRUE

(***************************************************************************)
(* Balloon numbers: re.match of the four balloon_patterns on a stripped    *)
(* line.  A match is [found, num, rest]: group(1) and group(2).            *)
(***************************************************************************)
NoBalloon == [found |-> FALSE, num |-> <<>>, rest |-> <<>>]

\* (.+) can start at k: some character other than a line break is there
DotPlusAt(s, k) == k >= 1 /\ k <= Len(s) /\ s[k] \notin LineBreaks

\* the position after a greedy .+ at k
RECURSIVE DotRunEnd(_, _)
DotRunEnd(s, k) == IF k > Len(s) \/ s[k] \in LineBreaks THEN k ELSE DotRunEnd(s, k + 1)

\* the text (.+) matches from k: up to the next line break or the end
DotPlus(s, k) == SubSeq(s, k, DotRunEnd(s, k) - 1)

MaxOf(S) == CHOOSE x \in S : \A y \in S : y <= x

\* the position after a greedy [^\d\w]* at i
RECURSIVE NonWordRunEnd(_, _)
NonWordRunEnd(s, i) == IF i > Len(s) \/ s[i] \in WordChars THEN i ELSE NonWordRunEnd(s, i + 1)

\* where (.+) starts after a greedy run of whitespace from j that must keep
\* at least `least` characters, backing off until (.+) can match; 0 if never
AfterSpaces(s, j, least) ==
    LET ks == {k \in (j + least)..RunEnd(s, j, Whitespace) : DotPlusAt(s, k)}
    IN  IF ks = {} THEN 0 ELSE MaxOf(ks)

\* ^(\d+)\s+(.+)
balloon_standard(s) ==
    LET j == DigitsEnd(s, 1)
        k == IF j > 0 THEN AfterSpaces(s, j, 1) ELSE 0
    IN  IF k > 0 THEN [found |-> TRUE, num |-> SubSeq(s, 1, j - 1), rest |-> DotPlus(s, k)]
        ELSE NoBalloon

\* ^\((\d+)\)\s*(.+)
balloon_parentheses(s) ==
    LET j == IF At(s, 1, "(") THEN DigitsEnd(s, 2) ELSE 0
        k == IF j > 0 /\ At(s, j, ")") THEN AfterSpaces(s, j + 1, 0) ELSE 0
    IN  IF k > 0 THEN [found |-> TRUE, num |-> SubSeq(s, 2, j - 1), rest |-> DotPlus(s, k)]
        ELSE NoBalloon

\* ^(\d+)[\.\-\:]\s*(.+)
balloon_separator(s) ==
    LET j == DigitsEnd(s, 1)
        k == IF j > 0 /\ AtClass(s, j, {".", "-", ":"}) THEN AfterSpaces(s, j + 1, 0) ELSE 0
    IN  IF k > 0 THEN [found |-> TRUE, num |-> SubSeq(s, 1, j - 1), rest |-> DotPlus(s, k)]
        ELSE NoBalloon

\* (\d+)\s*[^\d\w]*(.+), matched at the start of the line: each of \d+, \s*
\* and [^\d\w]* takes the longest run that still lets the rest match
balloon_flexible(s) ==
    LET StartsOk(k) == {m \in k..NonWordRunEnd(s, k) : DotPlusAt(s, m)}
        SpacesOk(j) == {k \in j..RunEnd(s, j, Whitespace) : StartsOk(k) /= {}}
        js == {j \in 2..RunEnd(s, 1, Digits) : SpacesOk(j) /= {}}
    IN  IF js = {} THEN NoBalloon
        ELSE LET j == MaxOf(js)
                 k == MaxOf(SpacesOk(j))
                 m == MaxOf(StartsOk(k))
             IN  [found |-> TRUE, num |-> SubSeq(s, 1, j - 1), rest |-> DotPlus(s, m)]

\* the row appended for a match: [sr_no, desc, nominal, tol, typ, inst, "Page n"]
row_of(m, page) ==
    CHOOSE row \in {<<IntOf(m.num), r.desc, r.nominal, r.tol, r.typ, r.inst, <<"Page", page>>>> :
                     r \in {parse_dimension(strip(m.rest))}} : TRUE

\* TryBalloon with len(dim_text) > 2 in place of len(dim_text) > 1
TryBalloon_LongerThanTwo(m, d, page, rest) ==
    IF m.found /\ Len(strip(m.rest)) > 2 THEN Append(d, row_of(m, page)) ELSE rest

\* one turn of `for pattern in balloon_patterns`: append and break when the
\* pattern matches and dim_text is longer than one character, else go on
TryBalloon(m, d, page, rest) ==
    IF m.found /\ Len(strip(m.rest)) > 1 THEN Append(d, row_of(m, page)) ELSE rest

\* process_line without the break: every matching pattern appends its row
match_all(d, s, page) ==
    LET Add(m, dd) == IF m.found /\ Len(strip(m.rest)) > 1 THEN Append(dd, row_of(m, page)) ELSE dd
    IN  IF s = <<>> THEN d
        ELSE Add(balloon_flexible(s), Add(balloon_separator(s),
               Add(balloon_parentheses(s), Add(balloon_standard(s), d))))

process_line_NoBreak(d, raw, page) ==
    CHOOSE dd \in {match_all(d, s, page) : s \in {strip(raw)}} : TRUE

\* the body of `for line in lines` once line is stripped (s), from the data
\* so far to the data after
match_line(d, s, page) ==
    IF s = <<>> THEN d
    ELSE TryBalloon(balloon_standard(s), d, page,
           TryBalloon(balloon_parentheses(s), d, page,
             TryBalloon(balloon_separator(s), d, page,
               TryBalloon(balloon_flexible(s), d, page, d))))

\* line = line.strip() is bound once, as the element of a one-element set
process_line(d, raw, page) ==
    CHOOSE dd \in {match_line(d, s, page) : s \in {strip(raw)}} : TRUE

(***************************************************************************)
(* Inputs.                                                                 *)
(***************************************************************************)
\* the texts made of at most n fragments of F
RECURSIVE Texts(_, _)
Texts(F, n) ==
    IF n = 0 THEN {<<>>}
    ELSE LET shorter == Texts(F, n - 1)
         IN  shorter \cup {t \o f : t \in shorter, f \in F}

NominalFrags == {<<"1">>, <<"2">>, <<"4">>, <<"0">>, <<"/">>, <<" ">>, <<".">>, <<"1", "/", "2">>, <<"m", "m">>}

ToleranceFrags ==
    {<<PlusMinus, "0", ".", "0", "5">>, <<PlusMinus, "0", ".", "1">>, <<PlusMinus>>, <<"5">>, <<" ">>,
     <<"+", "0", ".", "1", "/", "-", "0", ".", "2">>, <<"+", "1">>, <<"/", "-", "2">>, <<"L">>}

TypeFrags ==
    {<<"2", " ", "x", " ", "4", "5">>, <<Degree>>, <<Oslash>>, <<"R">>, <<"M", "8">>, <<" ">>,
     <<"M", "A", "X">>, <<"c", "h", "a", "m">>, <<"x">>, <<"3", "0">>}

WordFrags ==
    {<<"D", "I", "A">>, <<"d", "i", "a", "m", "e", "t", "e", "r">>, <<"r", "a", "d", "i", "u", "s">>,
     <<"T", "h", "r", "e", "a", "d">>, <<"a", "n", "g", "l", "e">>, <<"R", "a">>,
     <<"S", "u", "r", "f", "a", "c", "e">>, <<"R", "U", "N", "O", "U", "T">>, <<" ">>}

FlagFrags ==
    {<<"C">>, <<"S">>, <<"c">>, <<" ">>, <<"1">>, <<Degree>>,
     <<"C", "R", "I", "T", "I", "C", "A", "L">>, <<"s", "p", "e", "c">>, <<"K", "E", "Y">>,
     <<"M", "a", "j", "o", "r">>}

TextInputs ==
    Texts(NominalFrags, MaxFrags) \cup Texts(ToleranceFrags, MaxFrags)
    \cup Texts(TypeFrags, MaxFrags) \cup Texts(WordFrags, MaxFrags) \cup Texts(FlagFrags, MaxFrags)

LineChars == {<<"1">>, <<"2">>, <<" ">>, <<"(">>, <<")">>, <<".">>, <<"a">>, <<"\n">>}

LineInputs == Texts(LineChars, MaxLineLen)

\* the default tolerance strings the caller may type in the sidebar
Tolerances == {DefaultTol, <<PlusMinus, "0", ".", "2", "0">>}

\* the lines a page may hold
DocLines ==
    {<<"1", " ", "2", "5", ".", "4", " ", PlusMinus, "0", ".", "1", " ", "C">>,
     <<"(", "1", ")", " ", "R", "5", ".", "0">>,
     <<"O", "v", "e", "r", "a", "l", "l", " ", "l", "e", "n", "g", "t", "h">>,
     <<"3", " ", "a">>,
     <<" ", " ">>}

Methods == <<"text", "dict", "blocks">>

\* the list `lines` of a method: the dict method keeps only the stripped,
\* non-blank spans
LinesOf(m) ==
    IF Methods[m] = "dict" THEN {strip(l) : l \in DocLines} \ {<<>>} ELSE DocLines

NoOut == [desc |-> "", nominal |-> None, tol |-> <<>>, typ |-> "", inst |-> ""]

(***************************************************************************)
(* The classifier alone: one text through parse_dimension, or one line     *)
(* through the body of the line loop.                                      *)
(***************************************************************************)
InitUnit ==
    /\ \/ pc = "text" /\ inp \in TextInputs
       \/ pc = "line" /\ inp \in LineInputs
    /\ out = NoOut
    /\ default_tolerance \in Tolerances
    /\ include_page_ref = TRUE
    /\ num_pages = 1 /\ page_num = 1 /\ method = 1 /\ nread = 0
    /\ line = <<>> /\ data = <<>> /\ origin = <<>> /\ columns = <<>>

Parse ==
    /\ pc = "text"
    /\ out' = parse_dimension(inp)
    /\ pc' = "parsed"
    /\ UNCHANGED <<inp, default_tolerance, include_page_ref, num_pages, page_num,
                   method, nread, line, data, origin, columns>>

Classify ==
    /\ pc = "line"
    /\ line' = inp
    /\ data' = process_line(data, inp, page_num)
    /\ pc' = "classified"
    /\ UNCHANGED <<inp, out, default_tolerance, include_page_ref, num_pages, page_num,
                   method, nread, origin, columns>>

NextUnit == Parse \/ Classify

SpecUnit == InitUnit /\ [][NextUnit]_vars

(***************************************************************************)
(* One request: the upload, extract_dimensions_from_pdf, the table.        *)
(***************************************************************************)
Init ==
    /\ pc = "upload"
    /\ inp = <<>> /\ out = NoOut
    /\ default_tolerance = DefaultTol
    /\ include_page_ref \in BOOLEAN
    /\ num_pages = 0 /\ page_num = 0 /\ method = 1 /\ nread = 0
    /\ line = <<>> /\ data = <<>> /\ origin = <<>> /\ columns = <<>>

\* fitz.open raises: the except clause reports the error
OpenFails ==
    /\ pc = "upload"
    /\ pc' = "error"
    /\ UNCHANGED <<inp, out, default_tolerance, include_page_ref, num_pages, page_num,
                   method, nread, line, data, origin, columns>>

\* fitz.open returns a document of n pages; the page loop starts
Open(n) ==
    /\ pc = "upload"
    /\ num_pages' = n
    /\ IF n = 0
       THEN pc' = "return" /\ UNCHANGED <<page_num, method>>
       ELSE pc' = "lines" /\ page_num' = 1 /\ method' = 1
    /\ nread' = 0
    /\ UNCHANGED <<inp, out, default_tolerance, include_page_ref, line, data, origin, columns>>

\* one turn of `for line in lines` of the current method on the current page
ReadLine(l) ==
    /\ pc = "lines"
    /\ nread < MaxLines
    /\ line' = l
    /\ data' = process_line(data, l, page_num)
    /\ origin' = IF Len(data') > Len(data)
                 THEN origin \o [i \in 1..(Len(data') - Len(data)) |-> Methods[method]]
                 ELSE origin
    /\ nread' = nread + 1
    /\ UNCHANGED <<pc, inp, out, default_tolerance, include_page_ref, num_pages, page_num,
                   method, columns>>

\* the lines of the method are exhausted: `if data: break`, else the next
\* method; after the last method or the break, the next page or return
EndMethod ==
    /\ pc = "lines"
    /\ IF data = <<>> /\ method < Len(Methods)
       THEN method' = method + 1 /\ UNCHANGED <<pc, page_num>>
       ELSE IF page_num < num_pages
       THEN page_num' = page_num + 1 /\ method' = 1 /\ UNCHANGED pc
       ELSE pc' = "return" /\ UNCHANGED <<page_num, method>>
    /\ nread' = 0
    /\ UNCHANGED <<inp, out, default_tolerance, include_page_ref, num_pages, line,
                   data, origin, columns>>

BaseColumns == <<"Sr. No.", "Parameter", "Nominal Value", "Tolerance", "Type (C/S)", "Instrument">>

\* pd.DataFrame(data, columns=columns) raises ValueError unless every row
\* has as many values as there are columns
DataFrameRaises(d, cols) == \E i \in 1..Len(d) : Len(d[i]) /= Len(cols)

\* the handler after extract_dimensions_from_pdf returned
Respond ==
    /\ pc = "return"
    /\ IF data /= <<>>
       THEN LET cols == IF include_page_ref THEN Append(BaseColumns, "Page") ELSE BaseColumns
            IN  IF DataFrameRaises(data, cols)
                THEN pc' = "error" /\ UNCHANGED columns
                ELSE pc' = "success" /\ columns' = cols
       ELSE pc' = "empty" /\ UNCHANGED columns
    /\ UNCHANGED <<inp, out, default_tolerance, include_page_ref, num_pages, page_num,
                   method, nread, line, data, origin>>

Next ==
    \/ OpenFails
    \/ \E n \in 0..MaxPages : Open(n)
    \/ \E l \in LinesOf(method) : ReadLine(l)
    \/ EndMethod
    \/ Respond

Spec == Init /\ [][Next]_vars

(***************************************************************************)
(* Properties.                                                             *)
(***************************************************************************)
Finished == pc \in {"return", "success", "empty", "error"}

\* C1: all the records of a result come from one single text-recovery
\* strategy; records of two different strategies are never both present.
C1_SingleStrategy ==
    Finished => \A i, j \in 1..Len(origin) : origin[i] = origin[j]

NoTolerancePattern(s) ==
    /\ ~search([i \in 1..Len(s) |-> PmDecimalEnd(s, i)]).found /\ ~search([i \in 1..Len(s) |-> PmWholeEnd(s, i)]).found
    /\ ~search([i \in 1..Len(s) |-> AsymDecimalEnd(s, i)]).found /\ ~search([i \in 1..Len(s) |-> AsymWholeEnd(s, i)]).found
    /\ ~search([i \in 1..Len(s) |-> SignedDecimalEnd(s, i)]).found /\ ~search([i \in 1..Len(s) |-> SignedWholeEnd(s, i)]).found

\* C2: when none of the six tolerance patterns matches the text, the
\* tolerance is the default tolerance string the caller configured.
C2_ConfiguredDefault ==
    (pc = "parsed" /\ NoTolerancePattern(strip(inp))) => out.tol = default_tolerance

\* the digits of s are exactly those of one expression matched at m
OnlyNumber(s, m) == m.found /\ \A i \in 1..Len(s) : s[i] \in Digits => (m.lo <= i /\ i < m.hi)

\* C3: a text whose numeric content is a simple fraction num/den (den not
\* zero) has nominal num / den; a mixed number `whole num/den` has nominal
\* whole + num/den; a text without a digit has no nominal.
C3_FractionNominal ==
    pc = "parsed" =>
      LET s == strip(inp)
          f == search([i \in 1..Len(s) |-> FractionEnd(s, i)])
          x == search([i \in 1..Len(s) |-> MixedEnd(s, i)])
      IN  /\ (OnlyNumber(s, f) /\ IntOf(SplitFirst(group1(s, f), "/")[2]) /= 0) =>
                out.nominal = Ratio(IntOf(SplitFirst(group1(s, f), "/")[1]),
                                    IntOf(SplitFirst(group1(s, f), "/")[2]))
          /\ (OnlyNumber(s, x) /\ Contains(group1(s, x), <<" ">>)
                /\ IntOf(SplitFirst(SplitFirst(group1(s, x), " ")[2], "/")[2]) /= 0) =>
                out.nominal =
                  AddRatio(<<IntOf(SplitFirst(group1(s, x), " ")[1]), 1>>,
                           Ratio(IntOf(SplitFirst(SplitFirst(group1(s, x), " ")[2], "/")[1]),
                                 IntOf(SplitFirst(SplitFirst(group1(s, x), " ")[2], "/")[2])))
          /\ (\A i \in 1..Len(s) : s[i] \notin Digits) => out.nominal = None

Tol005 == <<PlusMinus, "0", ".", "0", "5">>

OccursAt(s, p, w) == p >= 1 /\ p + Len(w) - 1 <= Len(s) /\ \A k \in 1..Len(w) : s[p + k - 1] = w[k]

\* a plus-minus sign at q that opens `sign, optional blanks, digits, point, digit`
OpensPmDecimal(s, q) ==
    /\ At(s, q, PlusMinus)
    /\ \E a \in (q + 1)..Len(s) : \E b \in a..Len(s) :
         /\ \A i \in (q + 1)..(a - 1) : s[i] \in Whitespace
         /\ \A i \in a..b : s[i] \in Digits
         /\ At(s, b + 1, ".")
         /\ AtClass(s, b + 2, Digits)

\* C4 as stated: whenever the text contains "+-0.05", the tolerance is
\* exactly "+-0.05", whatever else the text contains.
C4_AnyContent ==
    (pc = "parsed" /\ Contains(inp, Tol005)) => out.tol = Tol005

\* C4 as amended: when the text contains "+-0.05", no further digit follows
\* that occurrence directly and no plus-minus sign before it opens a
\* plus-minus decimal expression, the tolerance is exactly "+-0.05".
C4_FirstPmDecimal ==
    pc = "parsed" =>
      \A p \in 1..Len(inp) :
        ( /\ OccursAt(inp, p, Tol005)
          /\ ~AtClass(inp, p + Len(Tol005), Digits)
          /\ \A q \in 1..(p - 1) : ~OpensPmDecimal(inp, q) ) => out.tol = Tol005

C4_Witness ==
    /\ pc = "parsed"
    /\ OccursAt(inp, 3, Tol005) /\ OccursAt(inp, 8, <<"/", "-", "2">>)
    /\ At(inp, 1, "+")
    /\ out.tol = Tol005

\* the stripped line s is `digits, whitespace, text`: the position where the
\* text starts, 0 when s has not this form
IntTextStart(s) ==
    LET ks == {k \in 3..Len(s) :
                 /\ s[k] \notin Whitespace
                 /\ \E j \in 2..(k - 1) :
                      /\ \A i \in 1..(j - 1) : s[i] \in Digits
                      /\ \A i \in j..(k - 1) : s[i] \in Whitespace}
    IN  IF ks = {} THEN 0 ELSE MinOf(ks)

\* the text of such a line: from its start to the end of the line
IntText(s) ==
    LET k == IntTextStart(s)
        ends == {e \in k..Len(s) : e = Len(s) \/ s[e + 1] \in LineBreaks}
    IN  strip(SubSeq(s, k, MinOf(ends)))

\* C5: a line `<int> <text>` whose trimmed text is longer than one character
\* produces exactly one record, with that integer as item number and the
\* fields of that text (the first segmentation pattern decides).
C5_IntTextLine ==
    (pc = "classified" /\ IntTextStart(strip(inp)) > 0 /\ Len(IntText(strip(inp))) > 1) =>
      LET s == strip(inp)
          k == IntTextStart(s)
          n == MaxOf({j \in 1..(k - 1) : s[j] \in Digits})
          r == parse_dimension(IntText(s))
      IN  /\ Len(data) = 1
          /\ data[1] = <<IntOf(SubSeq(s, 1, n)), r.desc, r.nominal, r.tol, r.typ, r.inst,
                         <<"Page", page_num>>>>

C5_Witness ==
    /\ pc = "classified"
    /\ IntTextStart(strip(inp)) > 0 /\ Len(IntText(strip(inp))) > 1
    /\ Len(data) = 1 /\ data[1][1] = 2

RuleOrder ==
    <<"Diameter", "Radius", "Thread", "Chamfer", "Angle", "Surface Roughness",
      "Concentricity/Runout", "Length">>

InstrumentFor(typ) ==
    CASE typ \in {"Diameter", "Length"} -> "DVC"
      [] typ \in {"Radius", "Chamfer", "Angle"} -> "VMS/IMM"
      [] typ = "Thread" -> "Thread Gauge"
      [] typ = "Surface Roughness" -> "Surface Tester"
      [] typ = "Concentricity/Runout" -> "CMM"

MarkerOccurs(i, s) ==
    CASE i = 1 -> IsDiameter(s, upper(s))
      [] i = 2 -> IsRadius(s, upper(s))
      [] i = 3 -> IsThread(s, upper(s))
      [] i = 4 -> IsChamfer(s, upper(s))
      [] i = 5 -> IsAngle(s, upper(s))
      [] i = 6 -> IsSurface(s, upper(s))
      [] i = 7 -> IsConcentricity(s, upper(s))
      [] i = 8 -> TRUE

\* C6: the type is one of the eight of the closed set, that of the earliest
\* rule in the fixed order whose marker occurs in the text, and the
\* instrument is the one fixed for the type; a diameter glyph gives
\* Diameter/DVC even with a degree symbol, and `2 x 45deg` is Chamfer.
C6_FirstRuleWins ==
    pc = "parsed" =>
      LET s == strip(inp)
      IN  /\ \E i \in 1..Len(RuleOrder) : out.desc = RuleOrder[i]
          /\ out.desc = RuleOrder[MinOf({i \in 1..Len(RuleOrder) : MarkerOccurs(i, s)})]
          /\ out.inst = InstrumentFor(out.desc)
          /\ Contains(s, <<Oslash>>) => (out.desc = "Diameter" /\ out.inst = "DVC")
          /\ s = <<"2", " ", "x", " ", "4", "5", Degree>> => out.desc = "Chamfer"

C6_Witness ==
    /\ pc = "parsed"
    /\ Contains(inp, <<Oslash>>) /\ Contains(inp, <<Degree>>) /\ Contains(inp, <<"x">>)
    /\ out.desc = "Diameter" /\ out.inst = "DVC"

\* an x or X that stands as a multiplier: no letter next to it
HasMultiplierToken(s) ==
    \E i \in 1..Len(s) :
      /\ s[i] \in {"x", "X"}
      /\ ~AtClass(s, i - 1, Letters) /\ ~AtClass(s, i + 1, Letters)

\* C7: a text with a degree symbol, without a multiplier token x/X, without
\* CHAM/CHAMFER, and outside the diameter, radius and thread rules, is an
\* Angle measured with VMS/IMM.
C7_DegreeAloneIsAngle ==
    pc = "parsed" =>
      LET s == strip(inp)
      IN  ( /\ Contains(s, <<Degree>>)
            /\ ~HasMultiplierToken(s)
            /\ ~Contains(upper(s), <<"C", "H", "A", "M">>)
            /\ ~IsDiameter(s, upper(s)) /\ ~IsRadius(s, upper(s)) /\ ~IsThread(s, upper(s)) )
          => (out.desc = "Angle" /\ out.inst = "VMS/IMM")

\* the letter c, in either case, stands in s as a word of its own
StandaloneLetter(s, c) ==
    \E i \in 1..Len(s) :
      /\ upper_char(s[i]) = c
      /\ ~AtClass(s, i - 1, WordChars) /\ ~AtClass(s, i + 1, WordChars)

\* the word w occurs in s, in any case
HasWord(s, w) ==
    \E i \in 1..(Len(s) - Len(w) + 1) : \A k \in 1..Len(w) : upper_char(s[i + k - 1]) = w[k]

\* C8: the inspection flag is "C" for a standalone C or the word CRITICAL,
\* else "S" for a standalone S or the word SPEC, else "K" for KEY or MAJOR,
\* else empty, whatever the case of the letters; a C or S inside another
\* word is no standalone token.
C8_FlagOrder ==
    pc = "parsed" =>
      /\ out.typ \in {"", "C", "S", "K"}
      /\ out.typ =
           IF StandaloneLetter(inp, "C") \/ HasWord(inp, <<"C", "R", "I", "T", "I", "C", "A", "L">>)
           THEN "C"
           ELSE IF StandaloneLetter(inp, "S") \/ HasWord(inp, <<"S", "P", "E", "C">>)
           THEN "S"
           ELSE IF HasWord(inp, <<"K", "E", "Y">>) \/ HasWord(inp, <<"M", "A", "J", "O", "R">>)
           THEN "K"
           ELSE ""

C8_Witness ==
    /\ pc = "parsed"
    /\ HasWord(inp, <<"C">>) /\ ~StandaloneLetter(inp, "C")
    /\ StandaloneLetter(inp, "S")
    /\ out.typ = "S"

\* C9: a document with at least one record ends in the success output for
\* both settings of include_page_ref, with the page column when it is on
\* and with the six base columns when it is off.
C9_SuccessForBothSettings ==
    (pc \in {"success", "empty", "error"} /\ data /= <<>>) =>
      /\ pc = "success"
      /\ columns = IF include_page_ref THEN Append(BaseColumns, "Page") ELSE BaseColumns

\* the stripped line s has no leading item number, or at most one character
\* (after trimming) follows its item number
RejectedLine(s) ==
    LET n == RunEnd(s, 1, Digits) - 1
        c == IF At(s, 1, "(") THEN RunEnd(s, 2, Digits) ELSE 0
    IN  IF n >= 1 THEN Len(strip(SubSeq(s, n + 1, Len(s)))) <= 1
        ELSE IF c > 2 /\ At(s, c, ")") THEN Len(strip(SubSeq(s, c + 1, Len(s)))) <= 1
        ELSE TRUE

\* C10: the data only grows by appending, one record per line at most; a
\* line without a leading item number or with a remainder of at most one
\* character appends nothing and the line loop goes on; records with equal
\* item numbers are kept; without any record the result is the empty output.
C10_AppendOnly ==
    [][ /\ \/ data' = data
           \/ Len(data') = Len(data) + 1 /\ SubSeq(data', 1, Len(data)) = data
        /\ (nread' = nread + 1 /\ RejectedLine(strip(line'))) => (data' = data /\ pc' = "lines")
        /\ (pc = "return" /\ data = <<>>) => pc' = "empty" ]_vars

C10_Witness ==
    /\ pc = "lines" /\ nread > 0
    /\ RejectedLine(strip(line))
    /\ Len(data) >= 2 /\ data[1][1] = data[2][1] /\ data[1] /= data[2]

====
